---- MODULE Spec2Model ----
(***************************************************************************)
(* The notification queues of dunst (src/queues.c): waiting, displayed and *)
(* history, with admission, stacking, replacement by id, closing, the      *)
(* timeout scan, the per-tick update and the wake-delay computation.       *)
(*                                                                         *)
(* A notification is a record; its field ptr is the identity of the heap   *)
(* object (two notifications may carry the same id, never the same ptr).   *)
(* The assertion of queues_notification_close_id is modelled as in a build *)
(* with NDEBUG (the call goes on), and assert_failed records that a build  *)
(* with assertions would have aborted there.                               *)
(***************************************************************************)
EXTENDS Integers, Sequences, FiniteSets, TLC

VARIABLES
    waiting,              \* GQueue *waiting
    displayed,            \* GQueue *displayed
    history,              \* GQueue *history
    displayed_limit,      \* unsigned int displayed_limit
    next_notification_id, \* int next_notification_id
    pause_displayed,      \* bool pause_displayed
    settings,             \* the fields of the settings struct queues.c reads
    now,                  \* the clock read by time_monotonic_now()
    nalloc,               \* number of notification objects created so far
    assert_failed,        \* assert(target == NULL) has been violated
    ev                    \* the last call: its name, its return value and the
                          \* calls it made to the external collaborators

vars == <<waiting, displayed, history, displayed_limit, next_notification_id,
          pause_displayed, settings, now, nalloc, assert_failed, ev>>

-----------------------------------------------------------------------------
(* Bounds of the model *)

MaxNotifs == 3       \* notification objects created in a run
MaxTime == 1         \* the clock's last value in a run
MaxNotifsT == 2      \* notification objects in the specifications about time
MaxTimeT == 3        \* the clock's last value in SpecTimeout
MaxTimeW == 2        \* the clock's last value in SpecWake

(* Program constants *)

G_USEC_PER_SEC == 1000000

-----------------------------------------------------------------------------
(* Sequence helpers (GQueue primitives) *)

Range(q) == {q[i] : i \in 1..Len(q)}

RemoveAt(q, i) == SubSeq(q, 1, i - 1) \o SubSeq(q, i + 1, Len(q))

InsertAt(q, i, x) == SubSeq(q, 1, i - 1) \o <<x>> \o SubSeq(q, i, Len(q))

ReplaceAt(q, i, x) == [q EXCEPT ![i] = x]

Min(a, b) == IF a < b THEN a ELSE b

\* the first of the indexes I (where a scan from the head stops), 0 when
\* there is none
FirstIdx(I) ==
    IF I = {} THEN 0 ELSE CHOOSE i \in I : \A j \in I : i <= j

-----------------------------------------------------------------------------
(* External collaborators *)

\* notification_cmp_data: urgency first (more urgent first), then arrival
notification_cmp_data(a, b) ==
    IF a.urgency # b.urgency
    THEN b.urgency - a.urgency
    ELSE a.timestamp - b.timestamp

\* notification_is_duplicate: same content and urgency
notification_is_duplicate(a, b) ==
    a.msg = b.msg /\ a.urgency = b.urgency

\* g_queue_insert_sorted: before the first element that does not compare
\* less than the new one, at the tail when there is none
g_queue_insert_sorted(q, n) ==
    LET i == FirstIdx({k \in 1..Len(q) : notification_cmp_data(q[k], n) >= 0})
    IN  IF i = 0 THEN Append(q, n) ELSE InsertAt(q, i, n)

\* enum reason, declared outside queues.c: the number a closure signal
\* carries for the reason the code passes, an enumerator or the literal 1
ReasonValue(r) ==
    CASE r = "1" -> 1
      [] r = "REASON_TIME" -> 1
      [] r = "REASON_USER" -> 2
      [] r = "REASON_SIG" -> 3

-----------------------------------------------------------------------------
(* The state an operation works on: the three queues and what the call has *)
(* told the external collaborators so far.                                 *)

Cur ==
    [w |-> waiting, d |-> displayed, h |-> history,
     closed |-> <<>>,   \* signal_notification_closed(n, reason): <<ptr, id, reason>>
     freed |-> <<>>,    \* notification_free(n): ptr
     ran |-> <<>>,      \* notification_run_script(n): ptr
     pushed |-> <<>>,   \* g_queue_push_tail(history, n): ptr
     af |-> assert_failed]

\* the notification object built by the caller from the request t
NewNotification(t) ==
    [ptr |-> nalloc + 1, id |-> t.id, urgency |-> t.urgency, timestamp |-> now,
     msg |-> t.msg, progress |-> t.progress, dup_count |-> t.dup_count,
     start |-> 0, timeout |-> t.timeout, transient |-> t.transient,
     fullscreen |-> t.fullscreen, redisplayed |-> FALSE,
     history_ignore |-> t.history_ignore, script |-> t.script]

\* mutant: the bound is compared with > and history grows one too long
queues_history_push_mut(S, n) ==
    IF ~n.history_ignore
    THEN IF settings.history_length > 0 /\ Len(S.h) > settings.history_length
         THEN [S EXCEPT !.h = Append(Tail(S.h), n),
                        !.freed = Append(S.freed, Head(S.h).ptr),
                        !.pushed = Append(S.pushed, n.ptr)]
         ELSE [S EXCEPT !.h = Append(S.h, n),
                        !.pushed = Append(S.pushed, n.ptr)]
    ELSE [S EXCEPT !.freed = Append(S.freed, n.ptr)]

queues_history_push(S, n) ==
    IF ~n.history_ignore
    THEN IF settings.history_length > 0 /\ Len(S.h) >= settings.history_length
         THEN [S EXCEPT !.h = Append(Tail(S.h), n),
                        !.freed = Append(S.freed, Head(S.h).ptr),
                        !.pushed = Append(S.pushed, n.ptr)]
         ELSE [S EXCEPT !.h = Append(S.h, n),
                        !.pushed = Append(S.pushed, n.ptr)]
    ELSE [S EXCEPT !.freed = Append(S.freed, n.ptr)]

queues_notification_close_id(S, id, reason) ==
    LET di == FirstIdx({k \in 1..Len(S.d) : S.d[k].id = id})
        wi == FirstIdx({k \in 1..Len(S.w) : S.w[k].id = id})
        d1 == IF di > 0 THEN RemoveAt(S.d, di) ELSE S.d
        w1 == IF wi > 0 THEN RemoveAt(S.w, wi) ELSE S.w
        S1 == [S EXCEPT !.d = d1, !.w = w1,
                        !.af = S.af \/ (di > 0 /\ wi > 0)]
    IN  IF di = 0 /\ wi = 0
        THEN S
        ELSE LET target == IF wi > 0 THEN S.w[wi] ELSE S.d[di]
                 S2 == IF ~target.redisplayed
                       THEN [S1 EXCEPT !.closed =
                                 Append(S1.closed, <<target.ptr, target.id, reason>>)]
                       ELSE S1
             IN  queues_history_push(S2, target)

queues_notification_close(S, n, reason) ==
    queues_notification_close_id(S, n.id, reason)

\* mutant: the counter is carried over without counting the duplicate
StackedDupCount_mut(orig, n) == orig.dup_count

\* the duplicate counter the new notification n takes over from orig
StackedDupCount(orig, n) ==
    IF orig.progress = n.progress THEN orig.dup_count + 1 ELSE orig.dup_count

\* [hit |-> the notification got stacked, S |-> the state after]
queues_stack_duplicate(S, n) ==
    LET di == FirstIdx({k \in 1..Len(S.d) : notification_is_duplicate(S.d[k], n)})
        wi == FirstIdx({k \in 1..Len(S.w) : notification_is_duplicate(S.w[k], n)})
    IN  IF di > 0
        THEN LET orig == S.d[di]
                 n1 == [n EXCEPT !.start = now, !.dup_count = StackedDupCount(orig, n)]
             IN  [hit |-> TRUE,
                  S |-> [S EXCEPT !.d = ReplaceAt(S.d, di, n1),
                                  !.closed = Append(S.closed, <<orig.ptr, orig.id, "1">>),
                                  !.freed = Append(S.freed, orig.ptr)]]
        ELSE IF wi > 0
        THEN LET orig == S.w[wi]
                 n1 == [n EXCEPT !.dup_count = StackedDupCount(orig, n)]
             IN  [hit |-> TRUE,
                  S |-> [S EXCEPT !.w = ReplaceAt(S.w, wi, n1),
                                  !.closed = Append(S.closed, <<orig.ptr, orig.id, "1">>),
                                  !.freed = Append(S.freed, orig.ptr)]]
        ELSE [hit |-> FALSE, S |-> S]

\* mutant: a match is reported but the slot keeps the old notification
queues_notification_replace_id_mut(S, new) ==
    [hit |-> \E k \in 1..Len(S.d \o S.w) : (S.d \o S.w)[k].id = new.id, S |-> S]

\* mutant: the script is run for a replacement in waiting as well
queues_notification_replace_id_script_mut(S, new) ==
    LET di == FirstIdx({k \in 1..Len(S.d) : S.d[k].id = new.id})
        wi == FirstIdx({k \in 1..Len(S.w) : S.w[k].id = new.id})
    IN  IF di > 0
        THEN LET old == S.d[di]
                 n1 == [new EXCEPT !.start = now, !.dup_count = old.dup_count]
             IN  [hit |-> TRUE,
                  S |-> [S EXCEPT !.d = ReplaceAt(S.d, di, n1),
                                  !.ran = Append(S.ran, new.ptr),
                                  !.freed = Append(S.freed, old.ptr)]]
        ELSE IF wi > 0
        THEN LET old == S.w[wi]
                 n1 == [new EXCEPT !.dup_count = old.dup_count]
             IN  [hit |-> TRUE,
                  S |-> [S EXCEPT !.w = ReplaceAt(S.w, wi, n1),
                                  !.ran = Append(S.ran, new.ptr),
                                  !.freed = Append(S.freed, old.ptr)]]
        ELSE [hit |-> FALSE, S |-> S]

\* [hit |-> an old notification with this id was replaced, S |-> the state after]
queues_notification_replace_id(S, new) ==
    LET di == FirstIdx({k \in 1..Len(S.d) : S.d[k].id = new.id})
        wi == FirstIdx({k \in 1..Len(S.w) : S.w[k].id = new.id})
    IN  IF di > 0
        THEN LET old == S.d[di]
                 n1 == [new EXCEPT !.start = now, !.dup_count = old.dup_count]
             IN  [hit |-> TRUE,
                  S |-> [S EXCEPT !.d = ReplaceAt(S.d, di, n1),
                                  !.ran = Append(S.ran, new.ptr),
                                  !.freed = Append(S.freed, old.ptr)]]
        ELSE IF wi > 0
        THEN LET old == S.w[wi]
                 n1 == [new EXCEPT !.dup_count = old.dup_count]
             IN  [hit |-> TRUE,
                  S |-> [S EXCEPT !.w = ReplaceAt(S.w, wi, n1),
                                  !.freed = Append(S.freed, old.ptr)]]
        ELSE [hit |-> FALSE, S |-> S]

\* the state after the call, written to the variables
Commit(S, op, ret) ==
    /\ waiting' = S.w
    /\ displayed' = S.d
    /\ history' = S.h
    /\ assert_failed' = S.af
    /\ ev' = [op |-> op, ret |-> ret,
              closed |-> S.closed, freed |-> S.freed, ran |-> S.ran,
              pushed |-> S.pushed]

-----------------------------------------------------------------------------
(* Operations *)

\* insert of a request t; the notification object is built by the caller
queues_notification_insert(t) ==
    IF t.msg = ""
    THEN /\ Commit([Cur EXCEPT !.ran = IF settings.always_run_script
                                       THEN <<0>> ELSE <<>>],
                   "insert", 0)
         /\ UNCHANGED <<displayed_limit, next_notification_id, pause_displayed,
                        settings, now, nalloc>>
    ELSE IF t.summary \in {"DUNST_COMMAND_PAUSE", "DUNST_COMMAND_RESUME",
                           "DUNST_COMMAND_TOGGLE"}
    THEN /\ pause_displayed' =
                CASE t.summary = "DUNST_COMMAND_PAUSE" -> TRUE
                  [] t.summary = "DUNST_COMMAND_RESUME" -> FALSE
                  [] t.summary = "DUNST_COMMAND_TOGGLE" -> ~pause_displayed
         /\ Commit(Cur, "insert", 0)
         /\ UNCHANGED <<displayed_limit, next_notification_id, settings, now, nalloc>>
    ELSE /\ nalloc' = nalloc + 1
         /\ IF t.id = 0
            THEN LET n == [NewNotification(t) EXCEPT !.id = next_notification_id + 1]
                     st == queues_stack_duplicate(Cur, n)
                 IN  /\ next_notification_id' = next_notification_id + 1
                     /\ IF ~settings.stack_duplicates \/ ~st.hit
                        THEN Commit([Cur EXCEPT !.w = g_queue_insert_sorted(Cur.w, n)],
                                    "insert", n.id)
                        ELSE Commit(st.S, "insert", n.id)
            ELSE LET n == NewNotification(t)
                     rp == queues_notification_replace_id(Cur, n)
                 IN  /\ UNCHANGED next_notification_id
                     /\ IF ~rp.hit
                        THEN Commit([Cur EXCEPT !.w = g_queue_insert_sorted(Cur.w, n)],
                                    "insert", n.id)
                        ELSE Commit(rp.S, "insert", n.id)
         /\ UNCHANGED <<displayed_limit, pause_displayed, settings, now>>

\* mutant: an id found in no live queue is looked up in history, and the
\* entry found there is removed and destroyed
CloseId_mut(id, reason) ==
    LET hi == FirstIdx({k \in 1..Len(history) : history[k].id = id})
        live == \E k \in 1..Len(waiting \o displayed) : (waiting \o displayed)[k].id = id
    IN  /\ IF ~live /\ hi > 0
           THEN Commit([Cur EXCEPT !.h = RemoveAt(history, hi),
                                   !.freed = <<history[hi].ptr>>], "close", 0)
           ELSE Commit(queues_notification_close_id(Cur, id, reason), "close", 0)
        /\ UNCHANGED <<displayed_limit, next_notification_id, pause_displayed,
                       settings, now, nalloc>>

\* close(id, reason), the entry point of external close requests
CloseId(id, reason) ==
    /\ Commit(queues_notification_close_id(Cur, id, reason), "close", 0)
    /\ UNCHANGED <<displayed_limit, next_notification_id, pause_displayed,
                   settings, now, nalloc>>

\* mutant: the sticky_history setting is not consulted, the timeout stays
Recalled_mut(n) == [n EXCEPT !.redisplayed = TRUE, !.start = 0]

\* what queues_history_pop makes of the notification n it takes from history
Recalled(n) ==
    [n EXCEPT !.redisplayed = TRUE,
              !.start = 0,
              !.timeout = IF settings.sticky_history THEN 0 ELSE n.timeout]

queues_history_pop ==
    /\ IF Len(history) = 0
       THEN Commit(Cur, "history_pop", 0)
       ELSE LET n == history[Len(history)]
                n1 == Recalled(n)
            IN  Commit([Cur EXCEPT !.h = SubSeq(history, 1, Len(history) - 1),
                                   !.w = <<n1>> \o waiting],
                       "history_pop", 0)
    /\ UNCHANGED <<displayed_limit, next_notification_id, pause_displayed,
                   settings, now, nalloc>>

RECURSIVE PushAllDisplayed(_)
PushAllDisplayed(S) ==
    IF Len(S.d) > 0
    THEN PushAllDisplayed(queues_notification_close(S, Head(S.d), "REASON_USER"))
    ELSE S

RECURSIVE PushAllWaiting(_)
PushAllWaiting(S) ==
    IF Len(S.w) > 0
    THEN PushAllWaiting(queues_notification_close(S, Head(S.w), "REASON_USER"))
    ELSE S

queues_history_push_all ==
    /\ Commit(PushAllWaiting(PushAllDisplayed(Cur)), "close_all", 0)
    /\ UNCHANGED <<displayed_limit, next_notification_id, pause_displayed,
                   settings, now, nalloc>>

\* index in q of the object ptr, 0 when it is not there
IdxOfPtr(q, ptr) == FirstIdx({k \in 1..Len(q) : q[k].ptr = ptr})

\* the body of the loop of queues_check_timeouts for the nodes still to
\* visit; every node's successor is taken before the node is handled
RECURSIVE CheckTimeoutsLoop(_, _, _)
CheckTimeoutsLoop(S, ptrs, is_idle) ==
    IF ptrs = <<>>
    THEN S
    ELSE LET i == IdxOfPtr(S.d, Head(ptrs))
             n == S.d[i]
         IN  IF is_idle /\ ~n.transient
             THEN CheckTimeoutsLoop(
                      [S EXCEPT !.d = ReplaceAt(S.d, i, [n EXCEPT !.start = now])],
                      Tail(ptrs), is_idle)
             ELSE IF n.start = 0 \/ n.timeout = 0
             THEN CheckTimeoutsLoop(S, Tail(ptrs), is_idle)
             ELSE IF now - n.start > n.timeout
             THEN CheckTimeoutsLoop(queues_notification_close(S, n, "REASON_TIME"),
                                    Tail(ptrs), is_idle)
             ELSE CheckTimeoutsLoop(S, Tail(ptrs), is_idle)

queues_check_timeouts(idle, fullscreen) ==
    /\ IF Len(displayed) = 0
       THEN Commit(Cur, "check_timeouts", 0)
       ELSE LET is_idle == IF fullscreen THEN FALSE ELSE idle
                ptrs == [i \in 1..Len(displayed) |-> displayed[i].ptr]
            IN  Commit(CheckTimeoutsLoop(Cur, ptrs, is_idle),
                       "check_timeouts", 0)
    /\ UNCHANGED <<displayed_limit, next_notification_id, pause_displayed,
                   settings, now, nalloc>>

\* mutant: update while paused returns without touching displayed
UpdatePaused_mut(S) == S

\* update while paused: everything displayed goes back to waiting
RECURSIVE UpdatePaused(_)
UpdatePaused(S) ==
    IF Len(S.d) > 0
    THEN UpdatePaused([S EXCEPT !.d = Tail(S.d),
                                !.w = g_queue_insert_sorted(S.w, Head(S.d))])
    ELSE S

\* mutant: fullscreen leaves the displayed FS_PUSHBACK notifications on display
UpdatePushback_mut(S, ptrs) == S

\* update under fullscreen: the displayed FS_PUSHBACK notifications go back
RECURSIVE UpdatePushback(_, _)
UpdatePushback(S, ptrs) ==
    IF ptrs = <<>>
    THEN S
    ELSE LET i == IdxOfPtr(S.d, Head(ptrs))
             n == S.d[i]
         IN  IF n.fullscreen = "FS_PUSHBACK"
             THEN UpdatePushback([S EXCEPT !.d = RemoveAt(S.d, i),
                                           !.w = g_queue_insert_sorted(S.w, n)],
                                 Tail(ptrs))
             ELSE UpdatePushback(S, Tail(ptrs))

\* mutant: the limit is compared with > and one more notification is shown
DisplayedFull_mut(S) == displayed_limit > 0 /\ Len(S.d) > displayed_limit

\* the list is full
DisplayedFull(S) == displayed_limit > 0 /\ Len(S.d) >= displayed_limit

\* mutant: the walk stops at the first notification that fullscreen holds
\* back (break where the code has continue)
RECURSIVE UpdatePromote_mut(_, _, _)
UpdatePromote_mut(S, ptrs, fullscreen) ==
    IF ptrs = <<>>
    THEN S
    ELSE LET i == IdxOfPtr(S.w, Head(ptrs))
             n == S.w[i]
         IN  IF DisplayedFull(S)
             THEN S
             ELSE IF fullscreen /\ n.fullscreen \in {"FS_DELAY", "FS_PUSHBACK"}
             THEN S
             ELSE LET n1 == [n EXCEPT !.start = now]
                  IN  UpdatePromote_mut(
                          [S EXCEPT !.w = RemoveAt(S.w, i),
                                    !.d = g_queue_insert_sorted(S.d, n1),
                                    !.ran = IF ~n.redisplayed /\ n.script
                                            THEN Append(S.ran, n.ptr) ELSE S.ran],
                          Tail(ptrs), fullscreen)

\* update: the walk over waiting that moves notifications to displayed
RECURSIVE UpdatePromote(_, _, _)
UpdatePromote(S, ptrs, fullscreen) ==
    IF ptrs = <<>>
    THEN S
    ELSE LET i == IdxOfPtr(S.w, Head(ptrs))
             n == S.w[i]
         IN  IF DisplayedFull(S)
             THEN S
             ELSE IF fullscreen /\ n.fullscreen \in {"FS_DELAY", "FS_PUSHBACK"}
             THEN UpdatePromote(S, Tail(ptrs), fullscreen)
             ELSE LET n1 == [n EXCEPT !.start = now]
                  IN  UpdatePromote(
                          [S EXCEPT !.w = RemoveAt(S.w, i),
                                    !.d = g_queue_insert_sorted(S.d, n1),
                                    !.ran = IF ~n.redisplayed /\ n.script
                                            THEN Append(S.ran, n.ptr) ELSE S.ran],
                          Tail(ptrs), fullscreen)

queues_update(fullscreen) ==
    /\ IF pause_displayed
       THEN Commit(UpdatePaused(Cur), "update", 0)
       ELSE LET S1 == IF fullscreen
                      THEN UpdatePushback(Cur,
                               [i \in 1..Len(displayed) |-> displayed[i].ptr])
                      ELSE Cur
                S2 == UpdatePromote(S1, [i \in 1..Len(S1.w) |-> S1.w[i].ptr],
                                    fullscreen)
            IN  Commit(S2, "update", 0)
    /\ UNCHANGED <<displayed_limit, next_notification_id, pause_displayed,
                   settings, now, nalloc>>

\* mutant: the time to live is counted from time 0, not from n.start
TimeToLive_mut(n, time) == n.timeout - time

\* gint64 ttl = n->timeout - (time - n->start)
TimeToLive(n, time) == n.timeout - (time - n.start)

\* the value returned when nothing bounds the sleep; inside the loop it
\* stands for G_MAXINT64 (no bound found so far)
NoSleep == -1

\* the loop of queues_get_next_datachange from index i on, sleep so far
\* (NoSleep for G_MAXINT64); the result is the value returned
RECURSIVE NextDatachangeLoop(_, _, _, _)
NextDatachangeLoop(d, i, time, sleep) ==
    IF i > Len(d)
    THEN sleep
    ELSE LET n == d[i]
             ttl == TimeToLive(n, time)
             MinS(s, x) == IF s = NoSleep THEN x ELSE Min(s, x)
             s1 == IF n.timeout > 0 /\ ttl > 0 THEN MinS(sleep, ttl) ELSE sleep
             age == time - n.timestamp
             s2 == IF settings.show_age_threshold >= 0
                   THEN IF age > settings.show_age_threshold
                        THEN MinS(s1, G_USEC_PER_SEC - (age % G_USEC_PER_SEC))
                        ELSE IF n.timeout = 0 \/ ttl > settings.show_age_threshold
                        THEN MinS(s1, settings.show_age_threshold)
                        ELSE s1
                   ELSE s1
         IN  IF n.timeout > 0 /\ ttl <= 0
             THEN 0
             ELSE NextDatachangeLoop(d, i + 1, time, s2)

queues_get_next_datachange(time) ==
    NextDatachangeLoop(displayed, 1, time, NoSleep)

\* a call of queues_get_next_datachange: the queues stay, the value is returned
GetNextDatachange(time) ==
    /\ Commit(Cur, "get_next_datachange", queues_get_next_datachange(time))
    /\ UNCHANGED <<displayed_limit, next_notification_id, pause_displayed,
                   settings, now, nalloc>>

queues_pause_on ==
    /\ pause_displayed' = TRUE
    /\ Commit(Cur, "pause_on", 0)
    /\ UNCHANGED <<displayed_limit, next_notification_id, settings, now, nalloc>>

queues_pause_off ==
    /\ pause_displayed' = FALSE
    /\ Commit(Cur, "pause_off", 0)
    /\ UNCHANGED <<displayed_limit, next_notification_id, settings, now, nalloc>>

\* mutant: the notifications of waiting are not destroyed
teardown_queues_mut ==
    /\ Commit([Cur EXCEPT !.h = <<>>, !.d = <<>>, !.w = <<>>,
                           !.freed = [i \in 1..Len(history \o displayed) |->
                                         (history \o displayed)[i].ptr]],
              "teardown", 0)
    /\ UNCHANGED <<displayed_limit, next_notification_id, pause_displayed,
                   settings, now, nalloc>>

\* teardown: g_queue_free_full destroys every notification of history, of
\* displayed and of waiting, and the queues with them
teardown_queues ==
    LET all == history \o displayed \o waiting
    IN  /\ Commit([Cur EXCEPT !.h = <<>>, !.d = <<>>, !.w = <<>>,
                               !.freed = [i \in 1..Len(all) |-> all[i].ptr]],
                  "teardown", 0)
        /\ UNCHANGED <<displayed_limit, next_notification_id, pause_displayed,
                       settings, now, nalloc>>

\* the monotonic clock advances, up to the bound max
Tick(max) ==
    /\ now < max
    /\ now' = now + 1
    /\ Commit(Cur, "tick", 0)
    /\ UNCHANGED <<displayed_limit, next_notification_id, pause_displayed,
                   settings, nalloc>>

-----------------------------------------------------------------------------------------------------------------------------------------------------
(* Inputs and specifications *)

\* a request that is admitted
Request(id, urgency, msg, progress, timeout, transient, fullscreen, history_ignore, script) ==
    [id |-> id, urgency |-> urgency, msg |-> msg, summary |-> "s",
     progress |-> progress, dup_count |-> 0, timeout |-> timeout,
     transient |-> transient, fullscreen |-> fullscreen,
     history_ignore |-> history_ignore, script |-> script]

Plain == Request(0, 0, "a", 0, 0, FALSE, "FS_SHOW", FALSE, FALSE)

\* the requests that are not admitted: empty display text, control strings
Rejected ==
    {[Plain EXCEPT !.msg = ""],
     [Plain EXCEPT !.msg = "", !.summary = "DUNST_COMMAND_PAUSE"],
     [Plain EXCEPT !.summary = "DUNST_COMMAND_PAUSE"],
     [Plain EXCEPT !.summary = "DUNST_COMMAND_RESUME"],
     [Plain EXCEPT !.summary = "DUNST_COMMAND_TOGGLE"]}

Admitted(t) ==
    t.msg # "" /\ t.summary \notin {"DUNST_COMMAND_PAUSE", "DUNST_COMMAND_RESUME",
                                    "DUNST_COMMAND_TOGGLE"}

InitWith(SettingsDom, LimitDom) ==
    /\ waiting = <<>>
    /\ displayed = <<>>
    /\ history = <<>>
    /\ displayed_limit \in LimitDom
    /\ next_notification_id = 1
    /\ pause_displayed = FALSE
    /\ settings \in SettingsDom
    /\ now = 0
    /\ nalloc = 0
    /\ assert_failed = FALSE
    /\ ev = [op |-> "init", ret |-> 0,
             closed |-> <<>>, freed |-> <<>>, ran |-> <<>>, pushed |-> <<>>]

Settings(stack, always, sticky, hlen, age) ==
    [stack_duplicates : stack, always_run_script : always, sticky_history : sticky,
     history_length : hlen, show_age_threshold : age]

\* insert of a request of D, at most max notification objects being created
Insert(D, max) ==
    \E t \in D \cup Rejected :
        /\ Admitted(t) => nalloc < max
        /\ queues_notification_insert(t)

\* every other operation; a close request names an id handed out or the next one
Others(max, maxTime) ==
    \/ \E id \in 2..(max + 2) : CloseId(id, "REASON_SIG")
    \/ queues_history_pop
    \/ queues_history_push_all
    \/ \E idle \in BOOLEAN, fullscreen \in BOOLEAN : queues_check_timeouts(idle, fullscreen)
    \/ \E fullscreen \in BOOLEAN : queues_update(fullscreen)
    \/ queues_pause_on
    \/ queues_pause_off
    \/ Tick(maxTime)

(* Spec: fresh and caller-supplied ids, under every displayed limit *)

Requests ==
    {Request(id, 0, "a", 0, 0, FALSE, "FS_SHOW", FALSE, FALSE) : id \in {0, 2}}

Init ==
    InitWith(Settings({FALSE}, {FALSE}, {FALSE}, {1}, {-1}), {0, 1, 2})

Next ==
    \/ Insert(Requests, MaxNotifs)
    \/ Others(MaxNotifs, MaxTime)

Spec == Init /\ [][Next]_vars

(* SpecHist: history exclusion, under every history length *)

RequestsHist ==
    {Request(0, 0, "a", 0, 0, FALSE, "FS_SHOW", hi, FALSE) : hi \in BOOLEAN}

InitHist ==
    InitWith(Settings({FALSE}, {FALSE}, {FALSE}, {0, 1, 2}, {-1}), {0})

NextHist ==
    \/ Insert(RequestsHist, MaxNotifs)
    \/ Others(MaxNotifs, MaxTime)

SpecHist == InitHist /\ [][NextHist]_vars

(* SpecOrder: urgencies, one notification displayed at a time *)

RequestsOrder ==
    {Request(0, u, "a", 0, 0, FALSE, "FS_SHOW", FALSE, FALSE) : u \in {0, 1}}

InitOrder ==
    InitWith(Settings({FALSE}, {FALSE}, {FALSE}, {0}, {-1}), {1})

NextOrder ==
    \/ Insert(RequestsOrder, MaxNotifs)
    \/ Others(MaxNotifs, MaxTime)

SpecOrder == InitOrder /\ [][NextOrder]_vars

(* SpecTimeout: timeouts and transient notifications, ids fresh and supplied *)

RequestsTimeout ==
    {Request(0, 0, "a", 0, 1, tr, "FS_SHOW", FALSE, FALSE) : tr \in BOOLEAN}
    \cup {Request(id, 0, "a", 0, 0, FALSE, "FS_SHOW", FALSE, FALSE) : id \in {0, 2}}

InitTimeout ==
    InitWith(Settings({FALSE}, {FALSE}, {FALSE}, {0}, {-1}), {0})

NextTimeout ==
    \/ Insert(RequestsTimeout, MaxNotifsT)
    \/ Others(MaxNotifsT, MaxTimeT)

SpecTimeout == InitTimeout /\ [][NextTimeout]_vars

(* SpecStack: stacking of duplicates with equal and differing progress *)

RequestsStack ==
    {Request(0, 0, "a", p, 0, FALSE, "FS_SHOW", FALSE, FALSE) : p \in {0, 1}}
    \cup {Request(0, 0, "b", 0, 0, FALSE, "FS_SHOW", FALSE, FALSE)}

InitStack ==
    InitWith(Settings({TRUE}, {FALSE}, {FALSE}, {1}, {-1}), {1})

NextStack ==
    \/ Insert(RequestsStack, MaxNotifs)
    \/ Others(MaxNotifs, MaxTime)

SpecStack == InitStack /\ [][NextStack]_vars

(* SpecWake: timeouts, with and without the age threshold; the wake delay *)
(* is asked for every time of the clock                                    *)

RequestsWake ==
    {Request(0, 0, "a", 0, t, FALSE, "FS_SHOW", FALSE, FALSE) : t \in {0, 1, 2}}

InitWake ==
    InitWith(Settings({FALSE}, {FALSE}, {FALSE}, {0}, {-1, 1}), {0})

NextWake ==
    \/ Insert(RequestsWake, MaxNotifsT)
    \/ Others(MaxNotifsT, MaxTimeW)
    \/ \E time \in 0..MaxTimeW : GetNextDatachange(time)

SpecWake == InitWake /\ [][NextWake]_vars

(* SpecSticky: timeouts, with and without the sticky_history setting *)

RequestsSticky ==
    {Request(0, 0, "a", 0, t, FALSE, "FS_SHOW", FALSE, FALSE) : t \in {0, 1}}

InitSticky ==
    InitWith(Settings({FALSE}, {FALSE}, BOOLEAN, {1}, {-1}), {0})

NextSticky ==
    \/ Insert(RequestsSticky, MaxNotifs)
    \/ Others(MaxNotifs, MaxTime)

SpecSticky == InitSticky /\ [][NextSticky]_vars

(* SpecOwn: stacking, replacement by id and history exclusion with a    *)
(* history of one entry, up to the teardown that ends the run          *)

RequestsOwn ==
    {Request(id, 0, "a", 0, 0, FALSE, "FS_SHOW", hi, FALSE) :
         id \in {0, 2}, hi \in BOOLEAN}

InitOwn ==
    InitWith(Settings(BOOLEAN, {FALSE}, {FALSE}, {1}, {-1}), {0})

NextOwn ==
    /\ ev.op # "teardown"
    /\ \/ Insert(RequestsOwn, MaxNotifs)
       \/ Others(MaxNotifs, MaxTime)
       \/ teardown_queues

SpecOwn == InitOwn /\ [][NextOwn]_vars

(* SpecFull: the three fullscreen modes, under every displayed limit *)

RequestsFull ==
    {Request(0, 0, "a", 0, 0, FALSE, fs, FALSE, FALSE) :
         fs \in {"FS_SHOW", "FS_DELAY", "FS_PUSHBACK"}}

InitFull ==
    InitWith(Settings({FALSE}, {FALSE}, {FALSE}, {0}, {-1}), {0, 1, 2})

NextFull ==
    \/ Insert(RequestsFull, MaxNotifsT)
    \/ Others(MaxNotifsT, MaxTime)

SpecFull == InitFull /\ [][NextFull]_vars

-----------------------------------------------------------------------------
(* Claims *)

Live == waiting \o displayed

AllQueues == waiting \o displayed \o history

Ptrs(q) == {q[i].ptr : i \in 1..Len(q)}

Ids(q) == {q[i].id : i \in 1..Len(q)}

\* C1: membership uniqueness: in every reachable state an identifier is
\* carried by at most one notification of waiting, displayed and history.
C1_MembershipUniqueness ==
    \A i, j \in 1..Len(AllQueues) :
        i # j => AllQueues[i].id # AllQueues[j].id

Sorted(q) ==
    \A i, j \in 1..Len(q) : i < j => notification_cmp_data(q[i], q[j]) <= 0

\* C2: sorted order: after any insert that admitted its notification and
\* after any update, waiting and displayed are each sorted by the comparator.
C2_SortedAfterInsertOrUpdate ==
    (ev.op = "update" \/ (ev.op = "insert" /\ ev.ret # 0))
        => Sorted(waiting) /\ Sorted(displayed)

PtrSeq(q) == [i \in 1..Len(q) |-> q[i].ptr]

\* the last n elements of q, all of q when it has no more than n
LastN(q, n) == IF Len(q) > n THEN SubSeq(q, Len(q) - n + 1, Len(q)) ELSE q

\* a step keeps history the most recently closed notifications: what was
\* there followed by what the step pushed, cut at the head to history_length,
\* the entries cut off being destroyed; history_pop takes the newest away
C3_Step ==
    LET H == settings.history_length
        all == PtrSeq(history) \o ev'.pushed
    IN  IF ev'.op = "history_pop"
        THEN /\ ev'.pushed = <<>> /\ ev'.freed = <<>>
             /\ PtrSeq(history') = SubSeq(all, 1, Len(all) - 1)
        ELSE /\ PtrSeq(history') = LastN(all, H)
             /\ \A i \in 1..(Len(all) - H) :
                    \E j \in 1..Len(ev'.freed) : ev'.freed[j] = all[i]

\* C3: bounded history: with history_length H > 0 history never holds more
\* than H notifications, and a push that would exceed H destroys exactly
\* the oldest entries, so that history is the most recently closed
\* notifications that are not history-excluded, in closure order.
C3_BoundedHistory ==
    /\ [](settings.history_length > 0 => Len(history) <= settings.history_length)
    /\ [][settings.history_length > 0 => C3_Step]_vars

\* a close has pushed a notification to a full history and the head was destroyed
C3_Witness ==
    /\ settings.history_length > 0
    /\ ev.op = "close"
    /\ ev.pushed # <<>>
    /\ ev.freed # <<>>
    /\ Len(history) = settings.history_length

\* stacking B (just inserted) onto A: B is in A's slot, A is in no queue, the
\* live queues keep their lengths and B's counter is A's plus one
StackedOnto(A) ==
    LET di == IdxOfPtr(displayed, A.ptr)
        wi == IdxOfPtr(waiting, A.ptr)
    IN  /\ Len(waiting') = Len(waiting)
        /\ Len(displayed') = Len(displayed)
        /\ A.ptr \notin Ptrs(AllQueues')
        /\ IF di > 0
           THEN /\ displayed'[di].ptr = nalloc'
                /\ displayed'[di].dup_count = A.dup_count + 1
           ELSE /\ waiting'[wi].ptr = nalloc'
                /\ waiting'[wi].dup_count = A.dup_count + 1

\* the fresh request t is inserted with stacking enabled
StackingInsert(t) ==
    /\ settings.stack_duplicates
    /\ t.id = 0
    /\ Admitted(t)
    /\ queues_notification_insert(t)

Duplicates(t) ==
    SelectSeq(displayed \o waiting, LAMBDA e : notification_is_duplicate(e, t))

C5_PauseSemantics ==
    [][\A fullscreen \in BOOLEAN :
          queues_update(fullscreen) =>
              /\ pause_displayed =>
                     /\ displayed' = <<>>
                     /\ Range(waiting') = Range(waiting) \cup Range(displayed)
                     /\ Len(waiting') = Len(waiting) + Len(displayed)
                     /\ history' = history
                     /\ ev'.closed = <<>> /\ ev'.freed = <<>> /\ ev'.pushed = <<>>
                     /\ Len(displayed') <= Len(displayed)
              /\ (~pause_displayed /\ ~fullscreen) =>
                     /\ Len(displayed') =
                            IF displayed_limit = 0
                            THEN Len(displayed) + Len(waiting)
                            ELSE Min(displayed_limit, Len(displayed) + Len(waiting))
                     /\ Len(waiting') + Len(displayed') = Len(waiting) + Len(displayed)]_vars

\* an update made while paused has sent a notification shown before back to waiting
C5_Witness ==
    /\ pause_displayed
    /\ ev.op = "update"
    /\ displayed = <<>>
    /\ \E i \in 1..Len(waiting) : waiting[i].start > 0

\* the wake delay of a notification shown alone: what is left of its timeout
WakeAlone(n, t) ==
    IF t - n.start < n.timeout THEN n.timeout - (t - n.start) ELSE 0

\* C6 as stated: for a displayed notification with positive timeout T whose
\* visibility started at time 0, the wake delay asked at time t is T - t
\* for t < T and 0 for t >= T.
C6_WakeAsStated ==
    [][\A t \in 0..MaxTimeW :
          (GetNextDatachange(t) /\ Len(displayed) = 1
               /\ displayed[1].timeout > 0 /\ displayed[1].start = 0)
              => ev'.ret = (IF t < displayed[1].timeout
                            THEN displayed[1].timeout - t ELSE 0)]_vars

\* C6 as amended: the same for a notification displayed alone whose
\* visibility started at any time s (T - (t - s), and 0 from s + T on),
\* when the age threshold is disabled (negative).
C6_WakeAgeDisabled ==
    [][\A t \in 0..MaxTimeW :
          (GetNextDatachange(t) /\ Len(displayed) = 1
               /\ displayed[1].timeout > 0 /\ settings.show_age_threshold < 0)
              => ev'.ret = WakeAlone(displayed[1], t)]_vars

\* the wake delay was asked with one notification displayed, the age
\* threshold disabled, and part of the timeout is left
C6_Witness ==
    /\ ev.op = "get_next_datachange"
    /\ settings.show_age_threshold < 0
    /\ Len(displayed) = 1
    /\ displayed[1].timeout = 2
    /\ ev.ret = 1

\* check_timeouts(idle, fullscreen) has to close n: the user counts as
\* active or n is transient, n is shown, has a timeout and has outlived it
Expired(n, idle, fullscreen) ==
    /\ ~(~fullscreen /\ idle) \/ n.transient
    /\ n.start # 0
    /\ n.timeout # 0
    /\ now - n.start > n.timeout

\* C7: check_timeouts(idle, fullscreen) closes a displayed notification
\* with reason time-expired, moving it to history, exactly when the user
\* is not (effectively) idle or it is transient, its start is set, its
\* timeout is non-zero and it has been visible for longer than the timeout;
\* every other displayed notification stays displayed, and a non-transient
\* one under effective idle has its start refreshed to now.
C7_CheckTimeouts ==
    [][\A idle \in BOOLEAN, fullscreen \in BOOLEAN :
          queues_check_timeouts(idle, fullscreen) =>
              \A i \in 1..Len(displayed) :
                  LET n == displayed[i]
                  IN  IF Expired(n, idle, fullscreen)
                      THEN /\ n.ptr \notin Ptrs(displayed')
                           /\ ~n.history_ignore => n.ptr \in Ptrs(history')
                           /\ ~n.redisplayed =>
                                  \E j \in 1..Len(ev'.closed) :
                                      ev'.closed[j] = <<n.ptr, n.id, "REASON_TIME">>
                      ELSE /\ n.ptr \in Ptrs(displayed')
                           /\ (~fullscreen /\ idle /\ ~n.transient) =>
                                  displayed'[IdxOfPtr(displayed', n.ptr)].start = now]_vars

\* C8: closing an id carried by no notification of displayed or waiting
\* (never handed out, already closed, or present only in history) changes
\* neither the queues nor the pause flag nor the id counter, signals no
\* closure and destroys nothing.
C8_CloseUnknownId ==
    [][\A id \in 2..(MaxNotifs + 2) :
          (CloseId(id, "REASON_SIG") /\ id \notin Ids(Live)) =>
              /\ UNCHANGED <<waiting, displayed, history, pause_displayed,
                             next_notification_id>>
              /\ ev'.closed = <<>> /\ ev'.freed = <<>> /\ ev'.pushed = <<>>]_vars

\* a close found no target (a target is pushed to history or destroyed)
\* although the id it named is carried by a notification of history
C8_Witness ==
    /\ ev.op = "close"
    /\ ev.pushed = <<>> /\ ev.freed = <<>>
    /\ \E i \in 1..Len(history) : history[i].id \notin Ids(Live)

\* C9: insert returns 0 exactly when the notification is not admitted (empty
\* display text, or a control string as summary), and then the queues are
\* unchanged; otherwise it returns a non-zero id and the notification is in
\* waiting or displayed, carrying the id returned.
C9_InsertReturn ==
    [][\A t \in Requests \cup Rejected :
          queues_notification_insert(t) =>
              /\ ev'.ret = 0 <=> ~Admitted(t)
              /\ ev'.ret = 0 => UNCHANGED <<waiting, displayed, history>>
              /\ ev'.ret # 0 =>
                     \E i \in 1..Len(Live') :
                         Live'[i].ptr = nalloc' /\ Live'[i].id = ev'.ret]_vars

\* an insert with a caller-supplied id has replaced a displayed notification
C9_Witness ==
    /\ ev.op = "insert"
    /\ ev.ret # 0
    /\ ev.freed # <<>>
    /\ \E i \in 1..Len(displayed) :
           displayed[i].ptr = nalloc /\ displayed[i].id = ev.ret

\* C10: displayed capacity: with displayed_limit L > 0 displayed never holds
\* more than L notifications (no bound applies with L = 0).
C10_DisplayedCapacity ==
    displayed_limit > 0 => Len(displayed) <= displayed_limit

\* an update has filled displayed to its limit and left a notification waiting
C10_Witness ==
    /\ displayed_limit > 0
    /\ ev.op = "update"
    /\ ~pause_displayed
    /\ Len(displayed) = displayed_limit
    /\ waiting # <<>>

\* history_pop takes the tail of history to the head of waiting, marked
\* redisplayed and with its start reset; on an empty history nothing changes
PopMovesTail ==
    IF history = <<>>
    THEN UNCHANGED <<waiting, displayed, history>>
    ELSE LET n == history[Len(history)]
         IN  /\ history' = SubSeq(history, 1, Len(history) - 1)
             /\ displayed' = displayed
             /\ Len(waiting') = Len(waiting) + 1
             /\ Tail(waiting') = waiting
             /\ Head(waiting').ptr = n.ptr
             /\ Head(waiting').id = n.id
             /\ Head(waiting').redisplayed
             /\ Head(waiting').start = 0

\* C11 as stated: history_pop on a non-empty history moves the tail to the
\* head of waiting, redisplayed and with start 0, and resets its timeout to
\* 0 unless sticky_history is enabled, the timeout then being left as it
\* was; on an empty history it changes nothing.
C11_PopStickyKeepsTimeout ==
    [][queues_history_pop =>
          /\ PopMovesTail
          /\ history # <<>> =>
                 Head(waiting').timeout =
                     IF settings.sticky_history
                     THEN history[Len(history)].timeout ELSE 0]_vars

\* C11 as amended: the same, the timeout being reset to 0 when
\* sticky_history is enabled and left as it was otherwise.
C11_PopStickyResetsTimeout ==
    [][queues_history_pop =>
          /\ PopMovesTail
          /\ history # <<>> =>
                 Head(waiting').timeout =
                     IF settings.sticky_history
                     THEN 0 ELSE history[Len(history)].timeout]_vars

\* a notification with a timeout has been recalled without sticky_history:
\* it is at the head of waiting, redisplayed, its start reset, its timeout kept
C11_Witness ==
    /\ ev.op = "history_pop"
    /\ ~settings.sticky_history
    /\ waiting # <<>>
    /\ Head(waiting).redisplayed
    /\ Head(waiting).start = 0
    /\ Head(waiting).timeout > 0

\* C12: the closure signal is never emitted for a notification recalled
\* from history: no operation (close, close_all, check_timeouts, an insert
\* that stacks or replaces) signals the closure of a notification whose
\* redisplayed flag is set.
C12_NoSignalForRecalled ==
    [][\A j \in 1..Len(ev'.closed) :
          \A i \in 1..Len(AllQueues) :
              AllQueues[i].ptr = ev'.closed[j][1] => ~AllQueues[i].redisplayed]_vars

\* the live notifications in the order close_all meets them
CloseAllOrder == displayed \o waiting

\* what a call of close_all does to the queues and tells the collaborators
C13_Step ==
    queues_history_push_all =>
          LET sig == SelectSeq(CloseAllOrder, LAMBDA n : ~n.redisplayed)
              keep == SelectSeq(CloseAllOrder, LAMBDA n : ~n.history_ignore)
              all == PtrSeq(history) \o PtrSeq(keep)
          IN  /\ displayed' = <<>>
              /\ waiting' = <<>>
              /\ ev'.closed = [i \in 1..Len(sig) |->
                                  <<sig[i].ptr, sig[i].id, "REASON_USER">>]
              /\ ev'.pushed = PtrSeq(keep)
              /\ PtrSeq(history') =
                     IF settings.history_length > 0
                     THEN LastN(all, settings.history_length) ELSE all

\* C13: close_all ends with displayed and waiting empty; every notification
\* that was live is closed head-first (displayed in order, then waiting in
\* order) with reason user, the closure being signalled unless the
\* notification was recalled from history, and each one that is not
\* history-excluded is appended to history in that order, history keeping
\* its newest history_length entries.
C13_CloseAll == [][C13_Step]_vars

\* the notification objects a step destroys, as a set
Destroyed == {ev'.freed[j] : j \in 1..Len(ev'.freed)}

\* a step destroys no object twice, destroys only objects that were in a
\* queue or have just been created, leaves no destroyed object in a queue,
\* and brings no object into the queues but the one just created
OwnStep ==
    /\ Cardinality(Destroyed) = Len(ev'.freed)
    /\ Destroyed \subseteq Ptrs(AllQueues) \cup {nalloc'}
    /\ Destroyed \cap Ptrs(AllQueues') = {}
    /\ Ptrs(AllQueues') \subseteq Ptrs(AllQueues) \cup {nalloc'}

\* C14: single ownership and single destruction: a notification object is
\* in at most one of waiting, displayed and history (and there only once);
\* it is destroyed at most once, and once destroyed (superseded by stacking
\* or replacement, history-excluded on close, evicted from history) it is
\* in no queue ever after; teardown destroys every notification still in
\* one of the three queues exactly once.
C14_SingleOwnership ==
    /\ [](Cardinality(Ptrs(AllQueues)) = Len(AllQueues))
    /\ [][OwnStep]_vars
    /\ [][teardown_queues =>
             /\ Destroyed = Ptrs(AllQueues)
             /\ Len(ev'.freed) = Len(AllQueues)
             /\ AllQueues' = <<>>]_vars

\* teardown has destroyed the notifications left in the queues, after an
\* earlier one was destroyed by the operation that took it out of them
C14_Witness ==
    /\ ev.op = "teardown"
    /\ Len(ev.freed) >= 2
    /\ nalloc > Len(ev.freed)

\* C15: the consistency assertion of close never fails: in every reachable
\* state no id is carried at the same time by a notification of displayed
\* and a notification of waiting, and assert(target == NULL) has held in
\* every close so far.
C15_AssertionHolds ==
    /\ ~assert_failed
    /\ Ids(displayed) \cap Ids(waiting) = {}

\* the live notifications carrying id, in the order the replacement scans
\* them: displayed from the head, then waiting
Carrying(id) == SelectSeq(displayed \o waiting, LAMBDA e : e.id = id)

\* the insert of t replaces a live notification: the one superseded is
\* destroyed (it alone) and no closure is signalled
ReplacesById(t) ==
    /\ t.id # 0
    /\ queues_notification_insert(t)
    /\ Carrying(t.id) # <<>>

\* C16 as stated: whenever an insert with a caller-supplied id matches a
\* live notification, in displayed or in waiting, the script is invoked for
\* the new notification exactly once and the superseded notification is
\* destroyed without a closure signal.
C16_ReplaceRunsScript ==
    [][\A t \in Requests :
          ReplacesById(t) =>
              /\ ev'.ran = <<nalloc'>>
              /\ ev'.freed = <<Head(Carrying(t.id)).ptr>>
              /\ ev'.closed = <<>>]_vars

\* C16 as amended: the script is invoked for the new notification, once,
\* when the notification superseded is in displayed, and is not invoked
\* when it is in waiting; in both cases the superseded notification (the
\* first match, displayed before waiting) is destroyed without a signal.
C16_ReplaceRunsScriptIfDisplayed ==
    [][\A t \in Requests :
          ReplacesById(t) =>
              /\ ev'.ran = IF t.id \in Ids(displayed) THEN <<nalloc'>> ELSE <<>>
              /\ ev'.freed = <<Head(Carrying(t.id)).ptr>>
              /\ ev'.closed = <<>>]_vars

\* an insert with a caller-supplied id has replaced a waiting notification
\* and run no script
C16_Witness ==
    /\ ev.op = "insert"
    /\ Len(ev.freed) = 1
    /\ ev.ran = <<>>
    /\ ev.closed = <<>>
    /\ nalloc \in Ptrs(waiting)

\* C17: when a fresh notification is stacked onto a live duplicate (in
\* displayed or in waiting), the closure of the superseded notification is
\* signalled exactly once, with a reason (replaced) that is none of
\* time-expired, user-dismissed and externally-signaled.
C17_StackReasonReplaced ==
    [][\A t \in RequestsStack :
          (StackingInsert(t) /\ Duplicates(t) # <<>>) =>
              /\ Len(ev'.closed) = 1
              /\ ev'.closed[1][1] = Head(Duplicates(t)).ptr
              /\ ReasonValue(ev'.closed[1][3]) \notin
                     {ReasonValue("REASON_TIME"), ReasonValue("REASON_USER"),
                      ReasonValue("REASON_SIG")}]_vars

\* fullscreen holds the notification n back
HeldBack(n) == n.fullscreen \in {"FS_DELAY", "FS_PUSHBACK"}

\* C18: fullscreen policy: after update(fullscreen = true) while not
\* paused, displayed holds no FS_PUSHBACK notification; every FS_PUSHBACK
\* notification that was displayed is in waiting, not in history and not
\* signalled closed; and no FS_DELAY or FS_PUSHBACK notification has moved
\* from waiting to displayed.
C18_FullscreenPolicy ==
    [][(queues_update(TRUE) /\ ~pause_displayed) =>
          /\ \A i \in 1..Len(displayed') : displayed'[i].fullscreen # "FS_PUSHBACK"
          /\ \A i \in 1..Len(displayed) :
                 displayed[i].fullscreen = "FS_PUSHBACK" =>
                     /\ displayed[i].ptr \in Ptrs(waiting')
                     /\ displayed[i].ptr \notin Ptrs(history')
          /\ ev'.closed = <<>> /\ ev'.freed = <<>> /\ ev'.pushed = <<>>
          /\ \A i \in 1..Len(waiting) :
                 HeldBack(waiting[i]) => waiting[i].ptr \notin Ptrs(displayed')]_vars

\* an update has left in waiting an FS_PUSHBACK notification that had been
\* displayed (its start is stamped), with another notification on display
C18_Witness ==
    /\ ev.op = "update"
    /\ ~pause_displayed
    /\ displayed # <<>>
    /\ \E i \in 1..Len(waiting) :
           waiting[i].fullscreen = "FS_PUSHBACK" /\ waiting[i].start > 0

\* C19: update is work-conserving: after an update made while not paused,
\* either displayed has reached displayed_limit (limit > 0) or every
\* notification left in waiting is held back by fullscreen (fullscreen
\* active and mode FS_DELAY or FS_PUSHBACK), so that with limit 0 and no
\* fullscreen waiting is left empty; every notification promoted has its
\* start stamped with the current time.
C19_WorkConserving ==
    [][\A fullscreen \in BOOLEAN :
          (queues_update(fullscreen) /\ ~pause_displayed) =>
              /\ \/ displayed_limit > 0 /\ Len(displayed') >= displayed_limit
                 \/ \A i \in 1..Len(waiting') : fullscreen /\ HeldBack(waiting'[i])
              /\ (displayed_limit = 0 /\ ~fullscreen) => waiting' = <<>>
              /\ \A i \in 1..Len(displayed') :
                     displayed'[i].ptr \in Ptrs(waiting) => displayed'[i].start = now]_vars

\* an update below the limit has promoted a notification at the current
\* time and left one that fullscreen holds back in waiting
C19_Witness ==
    /\ ev.op = "update"
    /\ ~pause_displayed
    /\ displayed_limit = 0 \/ Len(displayed) < displayed_limit
    /\ waiting # <<>>
    /\ now > 0
    /\ \E i \in 1..Len(displayed) : displayed[i].start = now

\* the wake delay asked at the current time is 0 because a notification
\* on display (its start stamped) has no time left
WakeNowForExpiry ==
    /\ queues_get_next_datachange(now) = 0
    /\ \A i \in 1..Len(displayed) : displayed[i].start # 0
    /\ \E i \in 1..Len(displayed) :
           displayed[i].timeout > 0 /\ TimeToLive(displayed[i], now) <= 0

\* C20: wake and expiry agree: whenever the wake delay asked at the current
\* time is 0 because the remaining time of a displayed notification is
\* <= 0, a check_timeouts at that time with the user not idle closes at
\* least one displayed notification.
C20_WakeMeansExpiry ==
    [][\A fullscreen \in BOOLEAN :
          (queues_check_timeouts(FALSE, fullscreen) /\ WakeNowForExpiry)
              => Len(displayed') < Len(displayed)]_vars

====
